---- MODULE Spec2Model ----
(***************************************************************************)
(* Model of sketch_oct21a.ino: four flex sensors (ESP32 ADC) smoothed by a *)
(* moving average drive two WS2812B strips of 75 LEDs with a cascade fill  *)
(* and an additive colour pulse.                                           *)
(*                                                                         *)
(* A float fraction in [0,1] is modelled by the pair <<num, den>> of the    *)
(* rational it approximates.  The inputs used are s/4095 (what loop()      *)
(* produces) and k/4 (exact floats); for both, no product taken from a     *)
(* fraction lies close enough to a rounding or truncation threshold for    *)
(* the float error to matter.  The pulse phase is the float the sketch     *)
(* computes, held as significand and exponent.                             *)
(***************************************************************************)
EXTENDS Integers, Sequences, FiniteSets

\* ---------- CONFIG ----------
NUM_LEDS_PER_STRIP == 75
ADC_PIN_1 == 34
ADC_PIN_2 == 35
ADC_PIN_3 == 32
ADC_PIN_4 == 33
smoothingSamples == 8
ADC_MAX == 4095

\* ---------- bounds of the model ----------
\* number of loop() iterations explored
MaxFrames == 10
\* a call of handleCascadeAndPulse on its own is made at millis() in 0..MaxMillis
MaxMillis == 1500
\* milliseconds that pass in setup() and loop() besides their delays
MaxTicks == 1

Strips == {"A", "B"}
Channels == 1..4
Slots == 0..(smoothingSamples - 1)
Pixels == 0..(NUM_LEDS_PER_STRIP - 1)

\* adcHist1..adcHist4 are read through their pins
PinOf(ch) == CASE ch = 1 -> ADC_PIN_1 [] ch = 2 -> ADC_PIN_2 [] ch = 3 -> ADC_PIN_3 [] OTHER -> ADC_PIN_4

\* ---------- integer helpers ----------
Min(a, b) == IF a < b THEN a ELSE b

\* C integer division truncates toward zero (d > 0)
TruncDiv(a, d) == IF a >= 0 THEN a \div d ELSE -((-a) \div d)

\* round(num/den) of a non-negative value: half away from zero
round(num, den) == (2 * num + den) \div (2 * den)

\* a <= b for fractions <<num, den>>
FracLe(a, b) == a[1] * b[2] <= b[1] * a[2]

\* ---------- FastLED: lib8tion and hsv2rgb_rainbow ----------
Black == [r |-> 0, g |-> 0, b |-> 0]

scale8(i, scale) == (i * (1 + scale)) \div 256

scale8_video(i, scale) == ((i * scale) \div 256) + (IF i # 0 /\ scale # 0 THEN 1 ELSE 0)

qadd8Wrapping(i, j) == (i + j) % 256

\* saturating 8-bit addition
qadd8(i, j) == Min(255, i + j)

\* the hue wheel of hsv2rgb_rainbow at full saturation and value (Y1 variant)
RainbowHue(h) ==
  LET section   == h \div 32
      offset8   == (h % 32) * 8
      third     == scale8(offset8, 85)
      twothirds == scale8(offset8, 170)
  IN CASE section = 0 -> [r |-> 255 - third, g |-> third, b |-> 0]
       [] section = 1 -> [r |-> 171, g |-> 85 + third, b |-> 0]
       [] section = 2 -> [r |-> 171 - twothirds, g |-> 170 + third, b |-> 0]
       [] section = 3 -> [r |-> 0, g |-> 255 - third, b |-> third]
       [] section = 4 -> [r |-> 0, g |-> 171 - twothirds, b |-> 85 + twothirds]
       [] section = 5 -> [r |-> third, g |-> 0, b |-> 255 - third]
       [] section = 6 -> [r |-> 85 + third, g |-> 0, b |-> 171 - third]
       [] OTHER       -> [r |-> 170 + third, g |-> 0, b |-> 85 - third]

\* desaturation step of hsv2rgb_rainbow
Desaturate(c, sat) ==
  IF sat = 255 THEN c
  ELSE IF sat = 0 THEN [r |-> 255, g |-> 255, b |-> 255]
  ELSE LET desat    == scale8_video(255 - sat, 255 - sat)
           satscale == 255 - desat
       IN [r |-> (scale8(c.r, satscale) + desat) % 256,
           g |-> (scale8(c.g, satscale) + desat) % 256,
           b |-> (scale8(c.b, satscale) + desat) % 256]

\* value step of hsv2rgb_rainbow
Dim(c, val) ==
  IF val = 255 THEN c
  ELSE LET v == scale8_video(val, val)
       IN IF v = 0 THEN Black
          ELSE [r |-> scale8(c.r, v), g |-> scale8(c.g, v), b |-> scale8(c.b, v)]

\* CRGB = CHSV(h, s, v)
CHSV(h, sat, val) == Dim(Desaturate(RainbowHue(h), sat), val)

\* CRGB::operator+=
AddColour(c, d) == [r |-> qadd8(c.r, d.r), g |-> qadd8(c.g, d.g), b |-> qadd8(c.b, d.b)]

\* ---------- the state ----------
\* Besides the globals, the locals and the position of the program: now is
\* the clock millis() reads, ticks the milliseconds that have passed besides
\* the delays.
VARIABLES pc, ret, i, init, adcHist, histIndex, s, leds, call, loc, cascadeOnly, wave, nReads, obs, frames, shown, flushes, now, ticks

vars == <<pc, ret, i, init, adcHist, histIndex, s, leds, call, loc, cascadeOnly, wave, nReads, obs, frames, shown, flushes, now, ticks>>

\* ---------- Arduino helpers ----------
\* the quotient rounded to nearest instead of truncated
mapRounding(x, in_min, in_max, out_min, out_max) == TruncDiv((x - in_min) * (out_max - out_min) + ((in_max - in_min) \div 2), in_max - in_min) + out_min

\* long map(long, long, long, long, long):
\* (x - in_min) * (out_max - out_min) / (in_max - in_min) + out_min
map(x, in_min, in_max, out_min, out_max) == TruncDiv((x - in_min) * (out_max - out_min), in_max - in_min) + out_min

\* n = constrain((float)s / 4095.0, 0.0, 1.0)
Normalize(v) == IF v > ADC_MAX THEN <<ADC_MAX, ADC_MAX>> ELSE <<v, ADC_MAX>>

\* ---------- handleCascadeAndPulse: the values it derives ----------
LedsToLightTruncated(f, nLeds) == ((f[1] * nLeds) \div f[2]) % 65536

\* ledsToLight = (uint16_t) round(normCascade * (float)nLeds)
LedsToLight(f, nLeds) == round(f[1] * nLeds, f[2]) % 65536

\* the colour of the lit part, CHSV(160, 200, 255)
BaseColour == CHSV(160, 200, 255)

\* hue = (uint8_t) round(normPulse * 255.0)
Hue(f) == round(f[1] * 255, f[2]) % 256

\* pulsePeriod = (uint16_t) map((int) round(normPulse * 1000.0), 0, 1000, 1400, 150)
PulsePeriod(f) == map(round(f[1] * 1000, f[2]), 0, 1000, 1400, 150) % 65536

PulseAmpInverted(f) == (200 - ((f[1] * 200) \div f[2])) % 256

\* pulseAmp = (uint8_t) (normPulse * 200.0)
PulseAmp(f) == ((f[1] * 200) \div f[2]) % 256

\* ---------- float arithmetic of the pulse phase ----------
\* A real in [0, 2) is held in fixed point as the tuple <<n, f1, .., f5>> of
\* its integer part and five fraction limbs of 14 bits (units of 2^-70), so
\* that no intermediate value exceeds 31 bits.  The sine is computed to
\* within 2^-67 of its value.  The closest that (sin(2 PI k / period) + 1) / 2
\* comes to the middle of two neighbouring floats, over every k and every
\* period in 150..1400, is 2^-55, so the rounding below yields the float
\* nearest to the real value, and that is the float the double-precision
\* expression of the sketch yields for each of these k and periods.
Limb == 2^14

Limbs == 6

One == <<1, 0, 0, 0, 0, 0>>

\* PI / 2 = 1.5707963267948966192313...
HalfPi == <<1, 9351, 15188, 4363, 4484, 6754>>

\* the element of a singleton: its evaluation computes the element first
Only(S) == CHOOSE x \in S : TRUE

RECURSIVE Carry(_, _, _)
\* the limbs 1..n of the column sums cols, with carry c into limb n
Carry(cols, n, c) == IF n = 1 THEN <<cols[1] + c>> ELSE Append(Carry(cols, n - 1, (cols[n] + c) \div Limb), (cols[n] + c) % Limb)

\* a * b, rounded down to 2^-70 (less than 6 units below the product)
FxMul(a, b) ==
  Carry(<<a[1] * b[1],
          a[1] * b[2] + a[2] * b[1],
          a[1] * b[3] + a[2] * b[2] + a[3] * b[1],
          a[1] * b[4] + a[2] * b[3] + a[3] * b[2] + a[4] * b[1],
          a[1] * b[5] + a[2] * b[4] + a[3] * b[3] + a[4] * b[2] + a[5] * b[1],
          a[1] * b[6] + a[2] * b[5] + a[3] * b[4] + a[4] * b[3] + a[5] * b[2] + a[6] * b[1]>>,
        Limbs, (a[2] * b[6] + a[3] * b[5] + a[4] * b[4] + a[5] * b[3] + a[6] * b[2]) \div Limb)

\* a * m for an integer 0 <= m < 2^11
FxScale(a, m) == Carry([n \in 1..Limbs |-> a[n] * m], Limbs, 0)

RECURSIVE FxDivFrom(_, _, _, _)
\* long division of the limbs n.. of a by d, with the remainder r carried in
FxDivFrom(a, d, n, r) == IF n > Limbs THEN <<>> ELSE <<(r * Limb + a[n]) \div d>> \o FxDivFrom(a, d, n + 1, (r * Limb + a[n]) % d)

\* a / d for an integer 0 < d < 2^11, rounded down to 2^-70
FxDiv(a, d) == FxDivFrom(a, d, 1, 0)

\* 1 - a for 0 <= a <= 1
FxOneMinus(a) == Carry([n \in 1..Limbs |-> IF n = 1 THEN 1 - a[1] ELSE 0 - a[n]], Limbs, 0)

\* the angle (PI / 2) * m / period, for 0 <= 2 * m <= period
Theta(m, period) == FxDiv(FxScale(HalfPi, m), period)

\* 1 - x2 * u / d
Horner(x2, u, d) == FxOneMinus(FxDiv(FxMul(x2, u), d))

\* terms of the series kept after the first; the next one is below 2^-68
SeriesSteps == 9

RECURSIVE SinTail(_, _)
\* 1 - x2/(2j (2j+1)) * (1 - x2/((2j+2) (2j+3)) * (...))
SinTail(x2, j) == IF j > SeriesSteps THEN One ELSE Only({Horner(x2, u, (2 * j) * (2 * j + 1)) : u \in {SinTail(x2, j + 1)}})

\* sin(th) for th in [0, PI / 4]
SinSeries(th) == FxMul(th, SinTail(FxMul(th, th), 1))

RECURSIVE CosTail(_, _)
\* 1 - x2/((2j-1) 2j) * (1 - x2/((2j+1) (2j+2)) * (...))
CosTail(x2, j) == IF j > SeriesSteps THEN One ELSE Only({Horner(x2, u, (2 * j - 1) * (2 * j)) : u \in {CosTail(x2, j + 1)}})

\* cos(th) for th in [0, PI / 4]
CosSeries(th) == CosTail(FxMul(th, th), 1)

\* sin(2 * PI * k / period) for 0 <= k < period, as sign and magnitude: the
\* angle is reduced to [0, PI / 4] within its quadrant
Sin(k, period) ==
  LET quadrant == (4 * k) \div period
      rem      == (4 * k) % period
      low      == 2 * rem <= period
  IN [neg |-> quadrant >= 2,
      mag |-> IF quadrant % 2 = 0
              THEN (IF low THEN SinSeries(Theta(rem, period)) ELSE CosSeries(Theta(period - rem, period)))
              ELSE (IF low THEN CosSeries(Theta(rem, period)) ELSE SinSeries(Theta(period - rem, period)))]

\* (sn + 1.0) / 2.0
HalfOnePlus(sn) == FxDiv(IF sn.neg THEN FxOneMinus(sn.mag) ELSE [sn.mag EXCEPT ![1] = @ + 1], 2)

RECURSIVE BitLength(_)
\* number of bits of n >= 0
BitLength(n) == IF n = 0 THEN 0 ELSE 1 + BitLength(n \div 2)

RECURSIVE LeadingLimb(_, _)
\* the first non-zero limb of v from limb n on (Limbs + 1: there is none)
LeadingLimb(v, n) == IF n > Limbs THEN n ELSE IF v[n] # 0 THEN n ELSE LeadingLimb(v, n + 1)

LimbAt(v, n) == IF n <= Limbs THEN v[n] ELSE 0

\* A float is the record [mant, exp] of value mant * 2^-exp, with
\* 2^23 <= mant < 2^24, or mant = 0 and exp = 0 for 0.0.
FloatZero == [mant |-> 0, exp |-> 0]

FloatHalf == [mant |-> 2^23, exp |-> 24]

FloatOne == [mant |-> 2^23, exp |-> 23]

\* v, whose leading limb j has sh bits, rounded to 24 bits: to nearest, ties to even
RoundAt(v, j, sh) ==
  LET next == LimbAt(v, j + 1) * Limb + LimbAt(v, j + 2)
      m    == v[j] * 2^(24 - sh) + (next \div 2^(4 + sh))
      r    == next % 2^(4 + sh)
      half == 2^(3 + sh)
      up   == r > half \/ (r = half /\ (m % 2 = 1 \/ \E n \in (j + 3)..Limbs : v[n] # 0))
      e    == 14 * (j - 1) + 24 - sh
  IN IF ~up THEN [mant |-> m, exp |-> e]
     ELSE IF m + 1 = 2^24 THEN [mant |-> 2^23, exp |-> e - 1]
     ELSE [mant |-> m + 1, exp |-> e]

ToFloatFrom(v, j) == IF j > Limbs THEN FloatZero ELSE RoundAt(v, j, BitLength(v[j]))

\* conversion of a double in [0, 1] to float
ToFloat(v) == ToFloatFrom(v, LeadingLimb(v, 1))

\* float phase = (sin((2.0 * PI * (float)(t % pulsePeriod)) / (float)pulsePeriod) + 1.0) / 2.0
Phase(t, period) == ToFloat(HalfOnePlus(Sin(t % period, period)))

\* round(phase * amp) instead of the truncation
PulseBrightRounded(phase, amp) ==
  IF phase.mant = 0 \/ phase.exp > 32 THEN 0
  ELSE LET q == (phase.mant \div 256) * amp + (((phase.mant % 256) * amp) \div 256)
           d == 2^(phase.exp - 8)
       IN ((2 * q + d) \div (2 * d)) % 256

\* pulseBright = (uint8_t) (phase * pulseAmp): the product is a float (rounded
\* to 24 bits, which can lift it to the next integer), the cast truncates it.
\* q is the product in units of 2^(8 - exp), g is what the product lacks to
\* the next integer n + 1 in units of 2^-exp; the floats below n + 1 are
\* spaced 2^(BitLength(n) - 24) apart.
PulseBright(phase, amp) ==
  IF phase.mant = 0 \/ phase.exp > 31 THEN 0
  ELSE LET low == (phase.mant % 256) * amp
           q   == (phase.mant \div 256) * amp + (low \div 256)
           d   == 2^(phase.exp - 8)
           n   == q \div d
           gap == d - (q % d)
           g   == 256 * gap - (low % 256)
       IN (IF gap <= 128 /\ 4 * g <= 2^(phase.exp + BitLength(n) - 23) THEN n + 1 ELSE n) % 256

\* ---------- readADC_smooth: the values it derives ----------
RECURSIVE SumTo(_, _)
\* s += hist[i] for i < n
SumTo(hist, n) == IF n = 0 THEN 0 ELSE SumTo(hist, n - 1) + hist[n - 1]

AverageSkipLast(hist) == (SumTo(hist, smoothingSamples - 1) \div smoothingSamples) % 65536

\* (uint16_t)(s / smoothingSamples)
Average(hist) == (SumTo(hist, smoothingSamples) \div smoothingSamples) % 65536

NextHistIndexEveryPin(pin, idx) == IF (idx + 1) % 256 >= smoothingSamples THEN 0 ELSE (idx + 1) % 256

NextHistIndexNoWrap(pin, idx) == IF pin = ADC_PIN_4 THEN (idx + 1) % 256 ELSE idx

\* histIndex after the observation of `pin`
NextHistIndex(pin, idx) == IF pin = ADC_PIN_4 THEN (IF (idx + 1) % 256 >= smoothingSamples THEN 0 ELSE (idx + 1) % 256) ELSE idx

\* ---------- loop(): which channel drives which strip ----------
CascadeChannelSwapped(strip) == IF strip = "A" THEN 2 ELSE 1

CascadeChannel(strip) == IF strip = "A" THEN 1 ELSE 2

PulseChannel(strip) == IF strip = "A" THEN 3 ELSE 4

\* ---------- the environment ----------
\* The voltage on a pin is a waveform; the n-th analogRead of the pin
\* returns (base + n * step) mod 4096.
Waveforms == {[base |-> 0, step |-> 0], [base |-> 4095, step |-> 0], [base |-> 100, step |-> 819]}

\* the cascade and pulse fractions a render is tried with
Fractions == {<<lv, ADC_MAX>> : lv \in {0, 655, 2048, 4075, 4095}} \cup {<<k, 4>> : k \in 1..3}

\* the calls a render is tried with: every cascade fraction without a pulse,
\* and every pulse fraction over a half-lit strip
RenderCalls == {c \in [strip : Strips, normCascade : Fractions, normPulse : Fractions] : c.normPulse[1] = 0 \/ c.normCascade = <<2, 4>>}

White == [r |-> 255, g |-> 255, b |-> 255]

\* contents a pixel buffer is given before a render
OldBuffers == {[p \in Pixels |-> Black], [p \in Pixels |-> White], [p \in Pixels |-> [r |-> p, g |-> 255 - p, b |-> 128]]}

\* uint16_t readADC_raw(pin): analogRead(pin)
readADC_raw(pin) == (wave[pin].base + nReads[pin] * wave[pin].step) % 4096

Pins == {ADC_PIN_1, ADC_PIN_2, ADC_PIN_3, ADC_PIN_4}

NoLocals == [ledsToLight |-> 0, hue |-> 0, pulsePeriod |-> 0, pulseAmp |-> 0, phase |-> FloatZero, pulseBright |-> 0, pulseCol |-> Black]

\* the globals after static initialisation, before setup()
Globals ==
  /\ i = 0
  /\ init = 0
  /\ adcHist = [ch \in Channels |-> [k \in Slots |-> 0]]
  /\ histIndex = 0
  /\ s = [ch \in Channels |-> 0]
  /\ loc = [st \in Strips |-> NoLocals]
  /\ nReads = [p \in Pins |-> 0]
  /\ obs = [ch \in Channels |-> <<>>]
  /\ frames = 0
  /\ flushes = 0
  /\ ticks = 0

Init ==
  /\ Globals
  /\ pc = "setup"
  /\ ret = "none"
  /\ leds = [st \in Strips |-> [p \in Pixels |-> Black]]
  /\ cascadeOnly = leds
  /\ shown = leds
  /\ call = [strip |-> "A", normCascade |-> <<0, ADC_MAX>>, normPulse |-> <<0, ADC_MAX>>]
  /\ wave \in [Pins -> Waveforms]
  /\ now = 0

\* hist[histIndex] = val: the slot at which a channel writes next
WriteSlot(ch) == histIndex

\* ---------- setup() ----------
\* delay(100); uint16_t init = readADC_raw(ADC_PIN_1)
SetupInit ==
  /\ pc = "setup"
  /\ now' = now + 100
  /\ init' = readADC_raw(ADC_PIN_1)
  /\ nReads' = [nReads EXCEPT ![ADC_PIN_1] = @ + 1]
  /\ i' = 0
  /\ pc' = "setup_fill"
  /\ UNCHANGED <<ret, adcHist, histIndex, s, leds, call, loc, cascadeOnly, wave, obs, frames, shown, flushes, ticks>>

\* one iteration of the for loop that fills the four histories
SetupFill ==
  /\ pc = "setup_fill"
  /\ i < smoothingSamples
  /\ adcHist' = [adcHist EXCEPT ![1][i] = init, ![2][i] = readADC_raw(ADC_PIN_2), ![3][i] = readADC_raw(ADC_PIN_3), ![4][i] = readADC_raw(ADC_PIN_4)]
  /\ nReads' = [nReads EXCEPT ![ADC_PIN_2] = @ + 1, ![ADC_PIN_3] = @ + 1, ![ADC_PIN_4] = @ + 1]
  /\ i' = i + 1
  /\ UNCHANGED <<pc, ret, init, histIndex, s, leds, call, loc, cascadeOnly, wave, obs, frames, shown, flushes, now, ticks>>

\* histIndex = 0; setup() returns and loop() starts
SetupDone ==
  /\ pc = "setup_fill"
  /\ i >= smoothingSamples
  /\ histIndex' = 0
  /\ pc' = "read1"
  /\ UNCHANGED <<ret, i, init, adcHist, s, leds, call, loc, cascadeOnly, wave, nReads, obs, frames, shown, flushes, now, ticks>>

\* ---------- readADC_smooth(pin, hist) ----------
ReadPc(ch) == CASE ch = 1 -> "read1" [] ch = 2 -> "read2" [] ch = 3 -> "read3" [] OTHER -> "read4"

AfterRead(ch) == CASE ch = 1 -> "read2" [] ch = 2 -> "read3" [] ch = 3 -> "read4" [] OTHER -> "callA"

\* s<ch> = readADC_smooth(ADC_PIN_<ch>, adcHist<ch>)
ReadSmooth(ch) ==
  /\ pc = ReadPc(ch)
  /\ ch = 1 => frames < MaxFrames
  /\ LET pin  == PinOf(ch)
         val  == readADC_raw(pin)
         hist == [adcHist[ch] EXCEPT ![histIndex] = val]
     IN /\ adcHist' = [adcHist EXCEPT ![ch] = hist]
        /\ histIndex' = NextHistIndex(pin, histIndex)
        /\ s' = [s EXCEPT ![ch] = Average(hist)]
        /\ nReads' = [nReads EXCEPT ![pin] = @ + 1]
        /\ obs' = [obs EXCEPT ![ch] = Append(@, val)]
  /\ pc' = AfterRead(ch)
  /\ UNCHANGED <<ret, i, init, leds, call, loc, cascadeOnly, wave, frames, shown, flushes, now, ticks>>

Read == \E ch \in Channels : ReadSmooth(ch)

\* ---------- loop(): the two calls of handleCascadeAndPulse ----------
CallRender(strip, from, to) ==
  /\ pc = from
  /\ call' = [strip |-> strip, normCascade |-> Normalize(s[CascadeChannel(strip)]), normPulse |-> Normalize(s[PulseChannel(strip)])]
  /\ pc' = "clear"
  /\ ret' = to
  /\ UNCHANGED <<i, init, adcHist, histIndex, s, leds, loc, cascadeOnly, wave, nReads, obs, frames, shown, flushes, now, ticks>>

\* handleCascadeAndPulse(ledsA, NUM_LEDS_PER_STRIP, n1, n3)
CallA == CallRender("A", "callA", "callB")

\* handleCascadeAndPulse(ledsB, NUM_LEDS_PER_STRIP, n2, n4)
CallB == CallRender("B", "callB", "show")

\* ---------- handleCascadeAndPulse(leds, nLeds, normCascade, normPulse) ----------
\* ledsToLight is computed and the buffer is cleared
Clear ==
  /\ pc = "clear"
  /\ loc' = [loc EXCEPT ![call.strip].ledsToLight = LedsToLight(call.normCascade, NUM_LEDS_PER_STRIP)]
  /\ leds' = [leds EXCEPT ![call.strip] = [p \in Pixels |-> Black]]
  /\ pc' = "cascade"
  /\ UNCHANGED <<ret, i, init, adcHist, histIndex, s, call, cascadeOnly, wave, nReads, obs, frames, shown, flushes, now, ticks>>

\* leds[(nLeds - 1) - k] = CHSV(160, 200, 255) for k < ledsToLight
Cascade ==
  /\ pc = "cascade"
  /\ leds' = [leds EXCEPT ![call.strip] = [p \in Pixels |-> IF (NUM_LEDS_PER_STRIP - 1) - p < loc[call.strip].ledsToLight THEN BaseColour ELSE @[p]]]
  /\ pc' = "pulse"
  /\ UNCHANGED <<ret, i, init, adcHist, histIndex, s, call, loc, cascadeOnly, wave, nReads, obs, frames, shown, flushes, now, ticks>>

\* a millisecond passes before millis() is read
Tick ==
  /\ pc = "pulse"
  /\ ticks < MaxTicks
  /\ now' = now + 1
  /\ ticks' = ticks + 1
  /\ UNCHANGED <<pc, ret, i, init, adcHist, histIndex, s, leds, call, loc, cascadeOnly, wave, nReads, obs, frames, shown, flushes>>

\* the pulse overlay when millis() returns t: hue, period, amplitude, phase, additive blend
PulseAt(t) ==
  /\ pc = "pulse"
  /\ \E st \in {call.strip}, h \in {Hue(call.normPulse)}, period \in {PulsePeriod(call.normPulse)}, amp \in {PulseAmp(call.normPulse)} :
       \E ph \in {Phase(t, period)} :
         \E bright \in {PulseBright(ph, amp)} :
           \E col \in {CHSV(h, 200, bright)} :
             /\ loc' = [loc EXCEPT ![st] = [ledsToLight |-> @.ledsToLight, hue |-> h, pulsePeriod |-> period, pulseAmp |-> amp, phase |-> ph, pulseBright |-> bright, pulseCol |-> col]]
             /\ cascadeOnly' = [cascadeOnly EXCEPT ![st] = leds[st]]
             /\ leds' = [leds EXCEPT ![st] = [p \in Pixels |-> AddColour(@[p], col)]]
  /\ now' = t
  /\ pc' = ret
  /\ UNCHANGED <<ret, i, init, adcHist, histIndex, s, call, wave, nReads, obs, frames, shown, flushes, ticks>>

\* the overlay of a call made by loop(): millis() returns the clock
Pulse == PulseAt(now)

\* the overlay of a call made on its own, at any time
PulseAlone == \E t \in 0..MaxMillis : PulseAt(t)

\* ---------- loop(): the end of the frame ----------
\* FastLED.show()
Show ==
  /\ pc = "show"
  /\ shown' = leds
  /\ flushes' = flushes + 1
  /\ pc' = "delay"
  /\ UNCHANGED <<ret, i, init, adcHist, histIndex, s, leds, call, loc, cascadeOnly, wave, nReads, obs, frames, now, ticks>>

\* delay(20); loop() returns and is called again
Delay ==
  /\ pc = "delay"
  /\ frames' = frames + 1
  /\ now' = now + 20
  /\ pc' = "read1"
  /\ UNCHANGED <<ret, i, init, adcHist, histIndex, s, leds, call, loc, cascadeOnly, wave, nReads, obs, shown, flushes, ticks>>

Next == SetupInit \/ SetupFill \/ SetupDone \/ Read \/ CallA \/ Clear \/ Cascade \/ Tick \/ Pulse \/ CallB \/ Show \/ Delay

Spec == Init /\ [][Next]_vars

\* ---------- one call of handleCascadeAndPulse on its own ----------
InitRender ==
  /\ Globals
  /\ pc = "clear"
  /\ ret = "done"
  /\ call \in RenderCalls
  /\ leds \in {[st \in Strips |-> IF st = call.strip THEN old ELSE [p \in Pixels |-> Black]] : old \in OldBuffers}
  /\ cascadeOnly = [st \in Strips |-> [p \in Pixels |-> Black]]
  /\ shown = cascadeOnly
  /\ wave = [p \in Pins |-> [base |-> 0, step |-> 0]]
  /\ now = 0

NextRender == Clear \/ Cascade \/ PulseAlone

SpecRender == InitRender /\ [][NextRender]_vars

\* ======================= properties of the frame loop (Spec) =======================
RECURSIVE SeqSum(_)
SeqSum(q) == IF q = <<>> THEN 0 ELSE Head(q) + SeqSum(Tail(q))

\* the smoothingSamples most recent raw samples loop() has observed
LastW(q) == SubSeq(q, Len(q) - smoothingSamples + 1, Len(q))

\* C1: once loop() has observed 8 or more samples on a channel, the smoothed
\* value of that channel is the integer-truncated mean of exactly its 8 most
\* recent raw samples, and the history holds those samples, one per slot.
C1_SmoothedIsMeanOfLastW ==
  \A ch \in Channels :
    Len(obs[ch]) >= smoothingSamples =>
      /\ s[ch] = SeqSum(LastW(obs[ch])) \div smoothingSamples
      /\ \A k \in 1..smoothingSamples : adcHist[ch][(Len(obs[ch]) - smoothingSamples + k - 1) % smoothingSamples] = LastW(obs[ch])[k]

C1_Witness ==
  \E ch \in Channels, d \in Channels :
    /\ Len(obs[ch]) > smoothingSamples
    /\ Len(obs[d]) = Len(obs[ch])
    /\ SeqSum(LastW(obs[ch])) % smoothingSamples # 0
    /\ LastW(obs[ch])[1] # LastW(obs[ch])[smoothingSamples]
    /\ obs[ch][1] # LastW(obs[ch])[1]
    /\ s[d] # s[ch]

\* the buffer one complete render produces
Rendered(fc, fp, q) == [p \in Pixels |-> AddColour(IF p >= NUM_LEDS_PER_STRIP - LedsToLight(fc, NUM_LEDS_PER_STRIP) THEN BaseColour ELSE Black, CHSV(Hue(fp), 200, PulseBright(q, PulseAmp(fp))))]

\* channel ch has been sampled in the current iteration of loop()
Sampled(ch) == pc \in {"callA", "clear", "cascade", "pulse", "callB", "show", "delay"} \/ (ch < 4 /\ pc = "read4") \/ (ch < 3 /\ pc = "read3") \/ (ch < 2 /\ pc = "read2")

\* C5: in every iteration each channel is sampled and smoothed exactly once,
\* then strip A is rendered from channels 1 and 3 and strip B from channels 2
\* and 4 of this iteration, then exactly one flush happens; what a flush shows
\* is both buffers completely rendered for the same frame.
C5_FrameOrder ==
  /\ \A ch \in Channels : Len(obs[ch]) = frames + (IF Sampled(ch) THEN 1 ELSE 0)
  /\ flushes = frames + (IF pc = "delay" THEN 1 ELSE 0)
  /\ pc = "delay" =>
       /\ \A ch \in Channels : s[ch] = Average(adcHist[ch]) /\ adcHist[ch][(frames % smoothingSamples)] = obs[ch][frames + 1]
       /\ shown["A"] = Rendered(Normalize(s[1]), Normalize(s[3]), loc["A"].phase)
       /\ shown["B"] = Rendered(Normalize(s[2]), Normalize(s[4]), loc["B"].phase)

C5_Witness ==
  /\ pc = "delay"
  /\ frames >= 1
  /\ s[1] # s[2]
  /\ s[3] # s[4]
  /\ shown["A"] # shown["B"]
  /\ loc["A"].pulseBright > 0

\* C8 as stated: an observation on one channel leaves unchanged the history
\* of every other channel and the slot at which every other channel will
\* write next.
C8_IndependentCursors ==
  [][\A ch \in Channels : (pc = ReadPc(ch) /\ pc' = AfterRead(ch)) =>
       \A d \in Channels \ {ch} : adcHist'[d] = adcHist[d] /\ WriteSlot(d)' = WriteSlot(d)]_vars

\* C8 amended: the channels share one write cursor.  An observation changes
\* only the observed channel's history, and only at the slot the cursor
\* points to; on channels 1 to 3 it leaves the cursor alone, on channel 4 it
\* advances the shared cursor by one slot modulo 8.
C8_SharedCursor ==
  [][\A ch \in Channels : (pc = ReadPc(ch) /\ pc' = AfterRead(ch)) =>
       /\ \A d \in Channels \ {ch} : adcHist'[d] = adcHist[d]
       /\ \A k \in Slots \ {histIndex} : adcHist'[ch][k] = adcHist[ch][k]
       /\ adcHist'[ch][histIndex] = obs'[ch][Len(obs'[ch])]
       /\ ch # 4 => histIndex' = histIndex
       /\ ch = 4 => histIndex' = (histIndex + 1) % smoothingSamples]_vars

C8_Witness ==
  /\ pc = "callA"
  /\ Len(obs[4]) = 1
  /\ histIndex = 1
  /\ \A ch \in Channels : obs[ch][1] = adcHist[ch][0]

\* C9: when setup() finishes, all 8 history slots of each channel hold one
\* and the same value, a single initial raw sample of that channel.
C9_SetupFillsOneSample ==
  (pc = "read1" /\ frames = 0) =>
    \A ch \in Channels : \A k \in Slots : adcHist[ch][k] = adcHist[ch][0]

\* C10: the write cursor is always in [0, 8); it visits the slots in cyclic
\* order, one slot further for each frame.
C10_CursorCyclic ==
  /\ histIndex \in Slots
  /\ histIndex = Len(obs[4]) % smoothingSamples
  /\ pc = "read1" => histIndex = frames % smoothingSamples

C10_Witness ==
  /\ pc = "read1"
  /\ frames = smoothingSamples + 1
  /\ histIndex = 1

\* ================= properties of handleCascadeAndPulse (SpecRender) =================
\* C2: after the clear and cascade steps, before the overlay, pixel p holds
\* the base colour iff p >= N - litCount and is black otherwise, where
\* litCount = round(cascadeFraction * N) lies in [0, N], is 0 at fraction 0,
\* N at fraction 1, non-decreasing in the fraction, and 38 for N = 75 at 0.5.
C2_CascadeBlock ==
  pc = "pulse" =>
    LET st  == call.strip
        f   == call.normCascade
        lit == loc[st].ledsToLight
        N   == NUM_LEDS_PER_STRIP
    IN /\ lit \in 0..N
       /\ 2 * f[2] * lit <= 2 * f[1] * N + f[2]
       /\ 2 * f[1] * N + f[2] < 2 * f[2] * (lit + 1)
       /\ f[1] = 0 => lit = 0
       /\ f[1] = f[2] => lit = N
       /\ (2 * f[1] = f[2] /\ N = 75) => lit = 38
       /\ \A g \in Fractions : FracLe(g, f) => LedsToLight(g, N) <= lit
       /\ BaseColour # Black
       /\ \A p \in Pixels : leds[st][p] = IF p >= N - lit THEN BaseColour ELSE Black

C2_Witness ==
  /\ pc = "pulse"
  /\ call.normCascade = <<2, 4>>
  /\ loc[call.strip].ledsToLight = 38
  /\ leds[call.strip][37] = BaseColour
  /\ leds[call.strip][36] = Black

\* C3: with pulseFraction 0, whatever the time and the cascadeFraction, the
\* pulse brightness is 0 and the buffer after the render is the cascade-only
\* buffer.
C3_NoPulseAtZero ==
  (pc = "done" /\ call.normPulse[1] = 0) =>
    /\ loc[call.strip].pulseBright = 0
    /\ leds[call.strip] = cascadeOnly[call.strip]

C3_Witness ==
  /\ pc = "done"
  /\ call.normPulse[1] = 0
  /\ loc[call.strip].phase = FloatOne
  /\ loc[call.strip].ledsToLight \in 1..(NUM_LEDS_PER_STRIP - 1)
  /\ leds[call.strip][0] = Black
  /\ leds[call.strip][NUM_LEDS_PER_STRIP - 1] = BaseColour

\* C4: the overlay is added to every pixel, inside and outside the cascade,
\* and each colour channel after it is min(255, value before + pulse colour
\* channel): no channel wraps around.
C4_SaturatingBlend ==
  pc = "done" =>
    LET st == call.strip
        c  == loc[st].pulseCol
    IN \A p \in Pixels :
         /\ leds[st][p].r = (IF cascadeOnly[st][p].r + c.r > 255 THEN 255 ELSE cascadeOnly[st][p].r + c.r)
         /\ leds[st][p].g = (IF cascadeOnly[st][p].g + c.g > 255 THEN 255 ELSE cascadeOnly[st][p].g + c.g)
         /\ leds[st][p].b = (IF cascadeOnly[st][p].b + c.b > 255 THEN 255 ELSE cascadeOnly[st][p].b + c.b)

C4_Witness ==
  /\ pc = "done"
  /\ \E p \in Pixels : cascadeOnly[call.strip][p].b = 255 /\ loc[call.strip].pulseCol.b > 0 /\ leds[call.strip][p].b = 255
  /\ \E p \in Pixels : cascadeOnly[call.strip][p] = Black /\ leds[call.strip][p] # Black

\* C6: the pulse period is a linear interpolation from 1400 down to 150: it
\* is 1400 at fraction 0, 150 at fraction 1, non-increasing in the fraction,
\* always in [150, 1400] and so never 0; at fraction 1 the amplitude is 200.
C6_PulsePeriod ==
  pc = "done" =>
    LET f      == call.normPulse
        period == loc[call.strip].pulsePeriod
    IN /\ period \in 150..1400
       /\ f[1] = 0 => period = 1400
       /\ f[1] = f[2] => (period = 150 /\ loc[call.strip].pulseAmp = 200)
       /\ \A g \in Fractions : FracLe(g, f) => PulsePeriod(g) >= period
       /\ f[2] * period <= 1400 * f[2] - 1250 * f[1] + 2 * f[2]
       /\ f[2] * period >= 1400 * f[2] - 1250 * f[1] - 2 * f[2]

C6_Witness ==
  /\ pc = "done"
  /\ call.normPulse[1] = call.normPulse[2]
  /\ loc[call.strip].pulsePeriod = 150
  /\ loc[call.strip].pulseAmp = 200

\* phase * amplitude in units of 2^(8 - exp), rounded down
ProductQ(l) == (l.phase.mant \div 256) * l.pulseAmp + (((l.phase.mant % 256) * l.pulseAmp) \div 256)

\* the number of those units in 1 (for a phase of at least 2^-9)
UnitsInOne(l) == 2^(l.phase.exp - 8)

\* C7 as stated: the pulse brightness is round(phase * amplitude).
C7_BrightnessRounded ==
  pc = "done" =>
    LET l == loc[call.strip]
    IN l.pulseBright = (IF l.phase.mant = 0 \/ l.phase.exp > 32 THEN 0 ELSE (2 * ProductQ(l) + UnitsInOne(l)) \div (2 * UnitsInOne(l)))

\* C7 amended: the pulse brightness is the float product phase * amplitude
\* truncated to an integer (the float product is the exact one or, when that
\* is less than 2^-15 below an integer, that integer), where the amplitude
\* is pulseFraction * 200 truncated to an integer; pulseFraction 1 and
\* phase 0.5 give 100.
C7_BrightnessTruncated ==
  pc = "done" =>
    LET l == loc[call.strip]
        f == call.normPulse
    IN /\ (l.phase.mant = 0 \/ l.phase.exp > 31) => l.pulseBright = 0
       /\ (l.phase.mant # 0 /\ l.phase.exp <= 31) =>
            /\ ProductQ(l) \div UnitsInOne(l) <= l.pulseBright
            /\ l.pulseBright <= (ProductQ(l) + 1) \div UnitsInOne(l)
       /\ f[2] * l.pulseAmp <= 200 * f[1]
       /\ 200 * f[1] < f[2] * (l.pulseAmp + 1)
       /\ (f[1] = f[2] /\ l.phase = FloatHalf) => l.pulseBright = 100

C7_Witness ==
  /\ pc = "done"
  /\ loc[call.strip].phase.exp \in 24..31
  /\ 2 * (ProductQ(loc[call.strip]) % UnitsInOne(loc[call.strip])) >= UnitsInOne(loc[call.strip])
  /\ loc[call.strip].phase.mant % 2^16 # 0
  /\ loc[call.strip].pulseBright > 0

====
